---- MODULE Spec2Model ----
(***************************************************************************)
(* Session store (AuthProvider), API gateway (apiRequest), message list    *)
(* (useMessages) and the callers of the gateway in src/src/App.js, as a    *)
(* state machine. Spec is a visitor who signs in and lists slots,          *)
(* RegisterSpec a visitor who registers, BookSpec a patient who books.     *)
(*                                                                         *)
(* JavaScript values are tagged records, so that a conversion (String(),   *)
(* JSON.stringify, JSON.parse, atob, split) is computed and not assumed.   *)
(***************************************************************************)
EXTENDS Integers, Sequences, FiniteSets, TLC

\* ------------------------------------------------------------------ bounds

\* Largest second the clock samples: Date.now() takes the value 0 and the
\* values s*1000 - 1, s*1000 and s*1000 + 1 for s in 1..MaxSec.
MaxSec == 1
\* Largest expiry claim (seconds since the epoch) a server puts in a token.
MaxExp == 1
\* Gateway calls that may be in flight at once.
MaxCalls == 1
\* Slots the server publishes: their identifiers are 1..MaxSlots.
MaxSlots == 1
\* Last millisecond the clock of the registration page reaches: it samples 0,
\* 2000, every millisecond from 5000 on, and the instants at which a timeout
\* is due.
NoticeHorizon == 5001
\* Timeouts (setTimeout) that may be pending at once.
MaxTimers == 2
\* Gateway calls that may be in flight at once while a patient books, and the
\* slots the list shows then (identifiers 1..MaxBookSlots).
MaxBookCalls == 2
MaxBookSlots == 2

\* exp is in seconds, Date.now() in milliseconds (tokenPayload.exp * 1000).
MsPerSec == 1000
\* setTimeout(..., 5000) of addMessage.
MessageLifetimeMs == 5000
\* setTimeout(() => onSwitchToLogin(), 2000) of RegisterForm.handleSubmit.
SwitchDelayMs == 2000

\* --------------------------------------------------------- JavaScript values

Undefined == [t |-> "undefined"]
Null == [t |-> "null"]
NaN == [t |-> "nan"]
Num(n) == [t |-> "num", n |-> n]
\* A string without dots that is neither JSON text nor base64 ("" is empty).
Str(s) == [t |-> "str", c |-> "plain", s |-> s]
\* The string that is the JSON text of value v.
JsonText(v) == [t |-> "str", c |-> "json", v |-> v]
\* The string that is the base64 encoding of string s.
B64(s) == [t |-> "str", c |-> "b64", of |-> s]
\* The string seg1.seg2. ... .segN, N >= 2.
Dotted(segs) == [t |-> "str", c |-> "dotted", segs |-> segs]
\* An object: a function from the names of its own properties to values.
Obj(f) == [t |-> "obj", f |-> f]
EmptyObj == Obj([k \in {} |-> Undefined])

\* An abrupt completion (a thrown error) or a normal one.
Throw(name, message) == [ok |-> FALSE, name |-> name, message |-> message]
Return(v) == [ok |-> TRUE, v |-> v]

\* ToBoolean: what `if (x)`, `x && y` and `x || y` test.
Truthy(v) ==
    CASE v.t \in {"undefined", "null", "nan"} -> FALSE
      [] v.t = "num" -> v.n # 0
      [] v.t = "str" -> v # Str("")
      [] OTHER -> TRUE

\* String(v) as localStorage.setItem applies it to a non-string value.
StringOf(v) ==
    CASE v.t = "str" -> v
      [] v.t = "undefined" -> Str("undefined")
      [] v.t = "null" -> Str("null")
      [] OTHER -> Str("[object Object]")

\* v.k (a property read): throws a TypeError on undefined and null.
GetProp(v, k) ==
    CASE v.t \in {"undefined", "null"} ->
            Throw("TypeError", Str("Cannot read properties of " \o v.t))
      [] v.t = "obj" -> Return(IF k \in DOMAIN v.f THEN v.f[k] ELSE Undefined)
      [] OTHER -> Return(Undefined)

\* { k: x, ...v }: the object's own k wins over x.
SpreadOver(v, k, x) ==
    LET own == IF v.t = "obj" THEN v.f ELSE EmptyObj.f
    IN  Obj([j \in DOMAIN own \cup {k} |-> IF j \in DOMAIN own THEN own[j] ELSE x])

\* { ...v, k: x }: spreading undefined or null adds nothing.
SpreadWith(v, k, x) ==
    LET own == IF v.t = "obj" THEN v.f ELSE EmptyObj.f
    IN  Obj([j \in DOMAIN own \cup {k} |-> IF j = k THEN x ELSE own[j]])

\* JSON.stringify of an object: a property whose value is undefined is left out.
JSONstringify(v) ==
    IF v.t = "obj"
    THEN JsonText(Obj([j \in {i \in DOMAIN v.f : v.f[i] # Undefined} |-> v.f[j]]))
    ELSE JsonText(v)

\* JSON.parse: throws a SyntaxError on a string that is not JSON text.
JSONparse(s) ==
    IF s.t = "str" /\ s.c = "json"
    THEN Return(s.v)
    ELSE Throw("SyntaxError", Str("Unexpected token in JSON"))

\* s.split('.')
Split(s) == IF s.c = "dotted" THEN s.segs ELSE <<s>>

\* seq[i], 0-based: undefined past the end.
At(seq, i) == IF i + 1 \in DOMAIN seq THEN seq[i + 1] ELSE Undefined

\* atob: the argument is converted to a string first; throws on a string that
\* is not base64.
Atob(v) ==
    LET s == StringOf(v)
    IN  IF s.c = "b64"
        THEN Return(s.of)
        ELSE Throw("InvalidCharacterError", Str("The string is not correctly encoded"))

\* ToNumber(v) * m
Times(v, m) == IF v.t = "num" THEN Num(v.n * m) ELSE NaN

\* a > b on numbers: false when either side is NaN.
Greater(a, b) == a.t = "num" /\ b.t = "num" /\ a.n > b.n

\* str.includes('fetch') for the strings that occur as error messages.
IncludesFetch(s) ==
    s.t = "str" /\ s.c = "plain"
    /\ s.s \in {"Failed to fetch", "NetworkError when attempting to fetch resource."}

\* ------------------------------------------------------------ Session store

\* localStorage with every key removed (getItem returns null).
EmptyStorage == [token |-> Null, user |-> Null]

\* localStorage.setItem(k, v) and localStorage.removeItem(k)
SetItem(ls, k, v) == [ls EXCEPT ![k] = StringOf(v)]
RemoveItem(ls, k) == [ls EXCEPT ![k] = Null]

\* tokenPayload.exp * 1000 of line 70-71: JSON.parse(atob(token.split('.')[1])),
\* then the exp property in milliseconds; a thrown error is passed on.
TokenExpiryMs(token) ==
    LET decoded == Atob(At(Split(token), 1))
        payload == JSONparse(decoded.v)
        exp == GetProp(payload.v, "exp")
    IN  IF ~decoded.ok THEN decoded
        ELSE IF ~payload.ok THEN payload
        ELSE IF ~exp.ok THEN exp
        ELSE Return(Times(exp.v, MsPerSec))

\* Only the token is removed.
RemoveTokenOnly(ls) == RemoveItem(ls, "token")

\* The two removeItem calls of the expired branch and of the catch block.
ClearStorage(ls) == RemoveItem(RemoveItem(ls, "token"), "user")

\* initialize without the expired branch: every decodable token is accepted.
initializeIgnoringExpiry(ls, t) ==
    LET expiry == TokenExpiryMs(ls.token)
        parsed == JSONparse(ls.user)
    IN  IF Truthy(ls.token) /\ Truthy(ls.user)
        THEN IF expiry.ok /\ parsed.ok
             THEN [user |-> parsed.v, ls |-> ls]
             ELSE [user |-> Null, ls |-> RemoveItem(RemoveItem(ls, "token"), "user")]
        ELSE [user |-> Null, ls |-> ls]

\* initialize comparing the expiry with the clock taken as seconds.
initializeClockInSeconds(ls, t) ==
    LET expiry == TokenExpiryMs(ls.token)
        parsed == JSONparse(ls.user)
    IN  IF Truthy(ls.token) /\ Truthy(ls.user)
        THEN IF expiry.ok /\ Greater(expiry.v, Num(t * MsPerSec)) /\ parsed.ok
             THEN [user |-> parsed.v, ls |-> ls]
             ELSE [user |-> Null, ls |-> RemoveItem(RemoveItem(ls, "token"), "user")]
        ELSE [user |-> Null, ls |-> ls]

\* The mount effect of AuthProvider at time t (Date.now()): what setUser was
\* given (null when it was not called) and what localStorage holds afterwards.
initialize(ls, t) ==
    LET token == ls.token
        userData == ls.user
        expiry == TokenExpiryMs(token)
        parsed == JSONparse(userData)
    IN  IF Truthy(token) /\ Truthy(userData)
        THEN IF ~expiry.ok
             THEN [user |-> Null, ls |-> ClearStorage(ls)]
             ELSE IF Greater(expiry.v, Num(t))
             THEN IF parsed.ok
                  THEN [user |-> parsed.v, ls |-> ls]
                  ELSE [user |-> Null, ls |-> ClearStorage(ls)]
             ELSE [user |-> Null, ls |-> ClearStorage(ls)]
        ELSE [user |-> Null, ls |-> ls]

\* login(token, userData, role)
login(ls, token, userData, role) ==
    LET merged == SpreadWith(userData, "role", role)
    IN  [user |-> merged,
         ls |-> SetItem(SetItem(ls, "token", token), "user", JSONstringify(merged))]

\* logout leaving the 'user' key behind.
logoutKeepingUserKey(ls) == [user |-> Null, ls |-> RemoveItem(ls, "token")]

\* logout()
logout(ls) == [user |-> Null, ls |-> ClearStorage(ls)]

\* -------------------------------------------------------------- API gateway

\* response.ok
ResponseOk(status) == status >= 200 /\ status <= 299

\* `${response.status}`
StatusStr(status) ==
    CASE status = 200 -> "200"
      [] status = 401 -> "401"
      [] status = 403 -> "403"
      [] OTHER -> "500"

\* `HTTP ${response.status}: ${response.statusText}`
HttpMessage(status, statusText) ==
    Str("HTTP " \o StatusStr(status) \o ": " \o statusText)

ConnectivityMessage == Str("Unable to connect to server. Please check your connection.")

\* data.message: the message read from the top of the body.
ErrorMessageTopLevel(data) == GetProp(data, "message")

\* data.error?.message
ErrorMessageOf(data) ==
    LET err == GetProp(data, "error")
    IN  IF ~err.ok THEN err
        ELSE IF err.v.t \in {"undefined", "null"} THEN Return(Undefined)
        ELSE GetProp(err.v, "message")

\* The catch block of apiRequest (lines 134-139) applied to a thrown error.
CatchRethrow(e) ==
    IF e.name = "TypeError" /\ IncludesFetch(e.message)
    THEN Throw("Error", ConnectivityMessage)
    ELSE e

\* Headers without an Authorization entry, whatever localStorage holds.
RequestHeadersWithoutToken(ls) ==
    [contentType |-> "application/json", authorization |-> Undefined]

\* The headers apiRequest builds from localStorage at the start of a call.
RequestHeaders(ls) ==
    [contentType |-> "application/json",
     authorization |-> IF Truthy(ls.token)
                       THEN [t |-> "str", c |-> "bearer", token |-> ls.token]
                       ELSE Undefined]

\* apiRequest from the moment fetch settles with resp: how the call completes
\* (out), what localStorage holds then (ls) and whether
\* window.location.reload() was called (reload).
apiRequest(ls, resp) ==
    LET message == ErrorMessageOf(resp.body)
    IN  IF resp.net = "fail"
        THEN [out |-> CatchRethrow(Throw("TypeError", resp.message)),
              ls |-> ls, reload |-> FALSE]
        ELSE IF resp.body.t = "unparseable"
        THEN [out |-> CatchRethrow(Throw("SyntaxError", Str("Unexpected token in JSON"))),
              ls |-> ls, reload |-> FALSE]
        ELSE IF ~ResponseOk(resp.status)
        THEN IF resp.status = 401 \/ resp.status = 403
             THEN [out |-> Return(Undefined), ls |-> ClearStorage(ls), reload |-> TRUE]
             ELSE IF ~message.ok
             THEN [out |-> CatchRethrow(message), ls |-> ls, reload |-> FALSE]
             ELSE [out |-> CatchRethrow(Throw("Error",
                               IF Truthy(message.v)
                               THEN message.v
                               ELSE HttpMessage(resp.status, resp.statusText))),
                   ls |-> ls, reload |-> FALSE]
        ELSE [out |-> Return(resp.body), ls |-> ls, reload |-> FALSE]

\* ------------------------------------------------------------- useMessages

\* prev.filter(msg => msg.id !== id) that keeps the message at the head of the
\* list only when it is the only one.
WithoutIdOrHead(prev, id) ==
    IF \E i \in DOMAIN prev : prev[i].id = id
    THEN SelectSeq(prev, LAMBDA msg : msg.id # id)
    ELSE IF Len(prev) > 1 THEN Tail(prev) ELSE prev

\* prev.filter(msg => msg.id !== id): the updater of removeMessage and of the
\* timeout addMessage sets.
WithoutId(prev, id) == SelectSeq(prev, LAMBDA msg : msg.id # id)

\* addMessage(message, type) when Date.now() is t: the list afterwards and the
\* pending timeouts afterwards.
addMessage(msgs, tms, t, message, type) ==
    [messages |-> Append(msgs, [id |-> t, message |-> message, type |-> type]),
     timers |-> Append(tms, [kind |-> "remove", id |-> t, due |-> t + MessageLifetimeMs])]

\* removeMessage(id)
removeMessage(msgs, id) == WithoutId(msgs, id)

\* ------------------------------------------------------------- RegisterForm

\* The characters the classes of validatePassword match.
LowerCase ==
    {"a", "b", "c", "d", "e", "f", "g", "h", "i", "j", "k", "l", "m",
     "n", "o", "p", "q", "r", "s", "t", "u", "v", "w", "x", "y", "z"}
UpperCase ==
    {"A", "B", "C", "D", "E", "F", "G", "H", "I", "J", "K", "L", "M",
     "N", "O", "P", "Q", "R", "S", "T", "U", "V", "W", "X", "Y", "Z"}
Digits == {"0", "1", "2", "3", "4", "5", "6", "7", "8", "9"}
Specials == {"@", "$", "!", "%", "*", "?", "&"}

\* validatePassword(password), the password a sequence of characters.
validatePassword(password) ==
    LET chars == {password[i] : i \in DOMAIN password}
        One(b) == IF b THEN 1 ELSE 0
    IN  One(Len(password) >= 8) + One(chars \cap LowerCase # {})
        + One(chars \cap UpperCase # {}) + One(chars \cap Digits # {})
        + One(chars \cap Specials # {})

\* useState({ name: '', email: '', password: '', confirmPassword: '' }): the
\* value of a field is the sequence of its characters.
BlankForm == [name |-> <<>>, email |-> <<>>, password |-> <<>>, confirmPassword |-> <<>>]

MismatchMessage == Str("Passwords do not match")
WeakMessage ==
    Str("Password must contain at least 8 characters with uppercase, lowercase, number, and special character")

\* The checks of handleSubmit with the strength check first.
registerValidationStrengthFirst(form, strength) ==
    IF strength < 5 THEN WeakMessage
    ELSE IF form.password # form.confirmPassword THEN MismatchMessage
    ELSE Null

\* The two checks handleSubmit makes before it calls the gateway: the message
\* it hands to addMessage before returning, or null when it goes on.
registerValidation(form, strength) ==
    IF form.password # form.confirmPassword THEN MismatchMessage
    ELSE IF strength < 5 THEN WeakMessage
    ELSE Null

\* ------------------------------------------------------------------- inputs

\* header.payload.signature with the given payload segment.
JwtOf(payloadSegment) == Dotted(<<Str("hdr"), payloadSegment, Str("sig")>>)

\* A well-formed token whose exp claim is e seconds.
ExpiringToken(e) == JwtOf(B64(JsonText(Obj([exp |-> Num(e)]))))

\* What a server may send as the token of a login response: a well-formed
\* token, a payload without exp, a payload that is not JSON, a payload segment
\* that is not base64, the empty string, or no token field at all (which
\* login persists as the string "undefined", without a payload segment).
IssuedTokens ==
    {ExpiringToken(e) : e \in 1..MaxExp}
    \cup {JwtOf(B64(JsonText(EmptyObj))), JwtOf(B64(Str("not json"))),
          JwtOf(Str("%%%")), Str(""), Undefined}

Pat == Obj([name |-> Str("Pat")])
PatAsAdmin == Obj([name |-> Str("Pat"), role |-> Str("admin")])

\* The user and role fields of a login response.
Grants ==
    {[user |-> Undefined, role |-> Undefined],
     [user |-> PatAsAdmin, role |-> Str("patient")],
     [user |-> Pat, role |-> Str("admin")]}

LoginBodies ==
    {Obj([token |-> tk, user |-> g.user, role |-> g.role]) : tk \in IssuedTokens, g \in Grants}

\* A slot of the server: its identifier and the epoch milliseconds of startAt.
Slot(i) == [id |-> i, startAt |-> i * MsPerSec]
Arr(items) == [t |-> "arr", items |-> items]
SlotBodies == {Arr({Slot(i) : i \in ids}) : ids \in SUBSET (1..MaxSlots)}

\* A body response.json() rejects.
Unparseable == [t |-> "unparseable"]

\* Bodies without a success payload: not JSON, null, {}, an error envelope
\* without a message, with an empty message and with a message.
ErrorBodies ==
    {Unparseable, Null, EmptyObj, Obj([error |-> EmptyObj]),
     Obj([error |-> Obj([message |-> Str("")])]),
     Obj([error |-> Obj([message |-> Str("Slot taken")])])}

\* The bodies of a 200: the endpoint's payload, or a body that is not JSON,
\* null or {}.
SuccessBodies(caller) ==
    {Unparseable, Null, EmptyObj}
    \cup CASE caller = "login" -> LoginBodies
           [] caller = "slots" -> SlotBodies
           [] OTHER -> {}

\* response.statusText for a status.
ReasonPhrase(status) ==
    CASE status = 401 -> "Unauthorized"
      [] status = 403 -> "Forbidden"
      [] OTHER -> "Internal Server Error"

\* What fetch may settle with for a call of the given caller: a rejection (the
\* message is the browser's), a 200, or a non-2xx status.
Responses(caller) ==
    {[net |-> "fail", message |-> Str(m)] : m \in {"Failed to fetch", "Load failed"}}
    \cup {[net |-> "ok", status |-> 200, statusText |-> "OK", body |-> b] :
            b \in SuccessBodies(caller)}
    \cup {[net |-> "ok", status |-> st, statusText |-> ReasonPhrase(st), body |-> b] :
            st \in {401, 403, 500}, b \in ErrorBodies}

\* "Passw0rd!" (the demo password of fillTestCredentials) and "Passw0rd#",
\* whose last character is in none of the classes.
StrongPassword == <<"P", "a", "s", "s", "w", "0", "r", "d", "!">>
HashPassword == <<"P", "a", "s", "s", "w", "0", "r", "d", "#">>

\* What a user may type into each field of the registration form.
Typed(field) ==
    CASE field = "name" -> {<<"P", "a", "t">>}
      [] field = "email" -> {<<"p", "@", "x", ".", "i", "o">>}
      [] OTHER -> {StrongPassword, HashPassword}

\* The instants the clock of the registration form is sampled at, besides the
\* instants at which a timeout is due.
NoticeInstants == {SwitchDelayMs} \cup (MessageLifetimeMs..NoticeHorizon)

\* What fetch may settle with for a call of RegisterForm: a rejection, or a
\* 200 with the body {}.
RegisterResponses ==
    {r \in Responses("register") :
        IF r.net = "fail"
        THEN r.message = Str("Failed to fetch")
        ELSE r.body = EmptyObj /\ r.status = 200}

\* The values Date.now() is sampled at.
TimePoints ==
    {0} \cup {sec * MsPerSec + d : sec \in 1..MaxSec, d \in {-1, 0, 1}}

\* -------------------------------------------------------------------- state

VARIABLES
    localStorage,   \* the persisted keys 'token' and 'user'
    user,           \* AuthProvider: user
    loading,        \* AuthProvider: loading
    now,            \* Date.now()
    calls,          \* apiRequest calls awaiting fetch
    reloading,      \* window.location.reload() was called and has not taken effect
    crashed,        \* a render threw: React has unmounted the tree
    loginLoading,   \* LoginForm: loading
    slotsList,      \* SlotsList: loading, slots, bookingSlot
    isLogin,        \* AuthPage: isLogin
    formData,       \* RegisterForm: formData
    passwordStrength, \* RegisterForm: passwordStrength
    registerLoading,  \* RegisterForm: loading
    messages,       \* RegisterForm's useMessages: messages
    timers,         \* the timeouts set by setTimeout that have not run
    last            \* history: the last operation, its inputs and its outcome

\* The state of AuthPage and of the RegisterForm it mounts.
authPage == <<isLogin, formData, passwordStrength, registerLoading, messages, timers>>

vars == <<localStorage, user, loading, now, calls, reloading, crashed,
          loginLoading, slotsList, authPage, last>>

Idle == [pc |-> "idle"]

\* SlotsList as useState initialises it.
SlotsListInit == [loading |-> TRUE, slots |-> Arr({}), bookingSlot |-> Null]

\* What App and Dashboard render.
View(cr, ld, u) ==
    IF cr THEN "blank"
    ELSE IF ld THEN "spinner"
    ELSE IF ~Truthy(u) THEN "auth"
    ELSE IF GetProp(u, "role").v = Str("admin") THEN "admin"
    ELSE "patient"

\* A call of apiRequest up to its await of fetch.
StartRequest(ls, caller, method, endpoint, arg) ==
    [pc |-> "fetch", caller |-> caller, method |-> method, endpoint |-> endpoint,
     headers |-> RequestHeaders(ls), arg |-> arg, live |-> TRUE]

\* fetchSlots up to its await: apiRequest(`/slots?from=...&to=...`).
FetchSlotsRequest(ls) == StartRequest(ls, "slots", "GET", "/slots", Null)

FreeCalls == {i \in DOMAIN calls : calls[i] = Idle}
FreeCall == CHOOSE i \in FreeCalls : \A j \in FreeCalls : i <= j

\* The calls of a component that has unmounted: their setState calls do nothing.
Orphaned(cs) ==
    [i \in DOMAIN cs |-> IF cs[i] = Idle THEN Idle ELSE [cs[i] EXCEPT !.live = FALSE]]

Init ==
    /\ localStorage = EmptyStorage
    /\ user = Null
    /\ loading = TRUE
    /\ now = 0
    /\ calls = [i \in 1..MaxCalls |-> Idle]
    /\ reloading = FALSE
    /\ crashed = FALSE
    /\ loginLoading = FALSE
    /\ slotsList = SlotsListInit
    /\ isLogin = TRUE
    /\ formData = BlankForm
    /\ passwordStrength = 0
    /\ registerLoading = FALSE
    /\ messages = <<>>
    /\ timers = <<>>
    /\ last = [op |-> "start"]

\* ------------------------------------------------------------ Session store

\* AuthProvider's mount effect (lines 63-85). A patient's dashboard mounts
\* SlotsList, whose mount effect calls fetchSlots (lines 513-515).
Initialize ==
    /\ loading
    /\ LET r == initialize(localStorage, now)
           mounts == View(crashed, FALSE, r.user) = "patient"
       IN  /\ localStorage' = r.ls
           /\ user' = r.user
           /\ calls' = IF mounts
                       THEN [calls EXCEPT ![FreeCall] = FetchSlotsRequest(r.ls)]
                       ELSE calls
           /\ last' = [op |-> "initialize",
                       after |-> IF last.op = "reload" THEN last.after ELSE last.op,
                       before |-> localStorage, at |-> now]
    /\ loading' = FALSE
    /\ slotsList' = SlotsListInit
    /\ UNCHANGED <<now, reloading, crashed, loginLoading, authPage>>

\* The Sign Out button of Dashboard (line 941): logout(). The dashboard
\* unmounts, so the calls of its components are orphaned.
Logout ==
    /\ View(crashed, loading, user) \in {"patient", "admin"}
    /\ LET r == logout(localStorage)
       IN  /\ localStorage' = r.ls
           /\ user' = r.user
    /\ calls' = Orphaned(calls)
    /\ slotsList' = SlotsListInit
    /\ last' = [op |-> "logout"]
    /\ UNCHANGED <<loading, now, reloading, crashed, loginLoading, authPage>>

\* The page is loaded again (window.location.reload() of line 127 taking
\* effect, or the browser's reload): every component is constructed anew and
\* the calls in flight are gone; localStorage survives.
Reload ==
    /\ user' = Null
    /\ loading' = TRUE
    /\ calls' = [i \in DOMAIN calls |-> Idle]
    /\ reloading' = FALSE
    /\ crashed' = FALSE
    /\ loginLoading' = FALSE
    /\ slotsList' = SlotsListInit
    /\ isLogin' = TRUE
    /\ formData' = BlankForm
    /\ passwordStrength' = 0
    /\ registerLoading' = FALSE
    /\ messages' = <<>>
    /\ timers' = <<>>
    /\ last' = [op |-> "reload", after |-> last.op]
    /\ UNCHANGED <<localStorage, now>>

\* Time passes.
Tick ==
    /\ \E later \in TimePoints : later > now /\ now' = later
    /\ UNCHANGED <<localStorage, user, loading, calls, reloading, crashed,
                   loginLoading, slotsList, authPage, last>>

\* ---------------------------------------------------------------- LoginForm

\* handleSubmit up to its await (lines 192-200). The button is disabled while
\* the form is loading.
SubmitLogin ==
    /\ View(crashed, loading, user) = "auth"
    /\ isLogin
    /\ ~loginLoading
    /\ FreeCalls # {}
    /\ loginLoading' = TRUE
    /\ calls' = [calls EXCEPT ![FreeCall] = StartRequest(localStorage, "login", "POST", "/login", Null)]
    /\ last' = [op |-> "click"]
    /\ UNCHANGED <<localStorage, user, loading, now, reloading, crashed, slotsList,
                   authPage>>

\* handleSubmit from its await on (lines 201-208), given how apiRequest
\* completed: the path taken, the message handed to addMessage, and the
\* Session afterwards.
handleSubmitResume(ls, u, out) ==
    LET token == GetProp(out.v, "token")
        r == login(ls, token.v, GetProp(out.v, "user").v, GetProp(out.v, "role").v)
    IN  IF ~out.ok
        THEN [path |-> "error", notice |-> [message |-> out.message, type |-> "error"],
              user |-> u, ls |-> ls]
        ELSE IF ~token.ok
        THEN [path |-> "error", notice |-> [message |-> token.message, type |-> "error"],
              user |-> u, ls |-> ls]
        ELSE [path |-> "success",
              notice |-> [message |-> Str("Login successful!"), type |-> "success"],
              user |-> r.user, ls |-> r.ls]

\* fetch settles for a call of handleSubmit: the rest of apiRequest and of
\* handleSubmit run. A patient's dashboard mounts SlotsList, which fetches.
LoginSettles(i) ==
    /\ calls[i] # Idle
    /\ calls[i].caller = "login"
    /\ \E resp \in Responses("login") :
        LET a == apiRequest(localStorage, resp)
            h == handleSubmitResume(a.ls, user, a.out)
            mounts == View(crashed, loading, h.user) = "patient"
        IN  /\ localStorage' = h.ls
            /\ user' = h.user
            /\ reloading' = (reloading \/ a.reload)
            /\ calls' = [calls EXCEPT ![i] = IF mounts THEN FetchSlotsRequest(h.ls) ELSE Idle]
            /\ last' = [op |-> "api", caller |-> calls[i].caller, resp |-> resp, out |-> a.out,
                        path |-> h.path, notice |-> h.notice]
    /\ loginLoading' = FALSE
    /\ slotsList' = SlotsListInit
    /\ UNCHANGED <<loading, now, crashed, authPage>>

\* ---------------------------------------------------------------- SlotsList

\* The Refresh button (line 572): fetchSlots up to its await (lines 494-504).
\* The button is not rendered while the list is loading (line 553).
RefreshSlots ==
    /\ View(crashed, loading, user) = "patient"
    /\ ~slotsList.loading
    /\ FreeCalls # {}
    /\ slotsList' = [slotsList EXCEPT !.loading = TRUE]
    /\ calls' = [calls EXCEPT ![FreeCall] = FetchSlotsRequest(localStorage)]
    /\ last' = [op |-> "click"]
    /\ UNCHANGED <<localStorage, user, loading, now, reloading, crashed, loginLoading,
                   authPage>>

\* fetchSlots from its await on (lines 505-510): the path taken, the message
\* handed to addMessage and the list afterwards.
fetchSlotsResume(sl, out) ==
    IF out.ok
    THEN [path |-> "success", notice |-> Undefined,
          sl |-> [sl EXCEPT !.slots = out.v, !.loading = FALSE]]
    ELSE [path |-> "error", notice |-> [message |-> out.message, type |-> "error"],
          sl |-> [sl EXCEPT !.loading = FALSE]]

\* fetch settles for a call of fetchSlots. A list that is not an array makes
\* the next render throw (slots.forEach, line 537), and React unmounts the
\* tree. An orphaned call's setState calls do nothing.
FetchSlotsSettles(i) ==
    /\ calls[i] # Idle
    /\ calls[i].caller = "slots"
    /\ \E resp \in Responses("slots") :
        LET a == apiRequest(localStorage, resp)
            f == fetchSlotsResume(slotsList, a.out)
            throws == calls[i].live /\ f.sl.slots.t # "arr"
        IN  /\ localStorage' = a.ls
            /\ reloading' = (reloading \/ a.reload)
            /\ crashed' = (crashed \/ throws)
            /\ slotsList' = IF ~calls[i].live \/ throws THEN SlotsListInit ELSE f.sl
            /\ calls' = IF throws
                        THEN Orphaned([calls EXCEPT ![i] = Idle])
                        ELSE [calls EXCEPT ![i] = Idle]
            /\ last' = [op |-> "api", caller |-> calls[i].caller, resp |-> resp, out |-> a.out,
                        path |-> f.path, notice |-> f.notice]
    /\ UNCHANGED <<user, loading, now, loginLoading, authPage>>

\* new Date(dateStr) <= new Date(), the dates in epoch milliseconds.
isSlotInPast(startAt, t) == startAt <= t

\* The Book button of a SlotCard (line 476): handleBookSlot up to its await
\* (lines 517-523). The button is disabled for a slot in the past and for the
\* slot bookingSlot names (lines 477, 597); the cards are not rendered while
\* the list is loading (line 553).
BookSlot ==
    /\ View(crashed, loading, user) = "patient"
    /\ ~slotsList.loading
    /\ FreeCalls # {}
    /\ \E slot \in slotsList.slots.items :
        /\ ~isSlotInPast(slot.startAt, now)
        /\ slotsList.bookingSlot # Num(slot.id)
        /\ slotsList' = [slotsList EXCEPT !.bookingSlot = Num(slot.id)]
        /\ calls' = [calls EXCEPT ![FreeCall] =
                StartRequest(localStorage, "book", "POST", "/book", slot.id)]
    /\ last' = [op |-> "click"]
    /\ UNCHANGED <<localStorage, user, loading, now, reloading, crashed, loginLoading,
                   authPage>>

\* handleBookSlot from its await on (lines 524-532): the path taken, the
\* message handed to addMessage and the list afterwards.
handleBookSlotResume(sl, slotId, out) ==
    IF out.ok
    THEN [path |-> "success",
          notice |-> [message |-> Str("Slot booked successfully!"), type |-> "success"],
          sl |-> [sl EXCEPT !.slots = Arr({slot \in sl.slots.items : slot.id # slotId}),
                            !.bookingSlot = Null]]
    ELSE [path |-> "error", notice |-> [message |-> out.message, type |-> "error"],
          sl |-> [sl EXCEPT !.bookingSlot = Null]]

\* fetch settles for a call of handleBookSlot. An orphaned call's setState
\* calls do nothing.
BookSlotSettles(i) ==
    /\ calls[i] # Idle
    /\ calls[i].caller = "book"
    /\ \E resp \in Responses("book") :
        LET a == apiRequest(localStorage, resp)
            h == handleBookSlotResume(slotsList, calls[i].arg, a.out)
        IN  /\ localStorage' = a.ls
            /\ reloading' = (reloading \/ a.reload)
            /\ slotsList' = IF calls[i].live THEN h.sl ELSE slotsList
            /\ last' = [op |-> "api", caller |-> calls[i].caller, resp |-> resp, out |-> a.out,
                        path |-> h.path, notice |-> h.notice]
    /\ calls' = [calls EXCEPT ![i] = Idle]
    /\ UNCHANGED <<user, loading, now, crashed, loginLoading, authPage>>

\* ----------------------------------------------- AuthPage and RegisterForm

\* RegisterForm is on screen.
RegisterShown == View(crashed, loading, user) = "auth" /\ ~isLogin

\* The timeouts that outlive RegisterForm: those of a removed list do nothing.
Surviving(tms) == SelectSeq(tms, LAMBDA tm : tm.kind = "switch")

\* "Create account" of LoginForm (line 260): setIsLogin(false). LoginForm
\* unmounts and RegisterForm mounts with its initial state.
SwitchToRegister ==
    /\ View(crashed, loading, user) = "auth"
    /\ isLogin
    /\ isLogin' = FALSE
    /\ loginLoading' = FALSE
    /\ calls' = Orphaned(calls)
    /\ last' = [op |-> "click"]
    /\ UNCHANGED <<localStorage, user, loading, now, reloading, crashed, slotsList,
                   formData, passwordStrength, registerLoading, messages, timers>>

\* "Sign in" of RegisterForm (line 436): setIsLogin(true). RegisterForm
\* unmounts: its state and its message list are gone.
SwitchToLogin ==
    /\ RegisterShown
    /\ isLogin' = TRUE
    /\ formData' = BlankForm
    /\ passwordStrength' = 0
    /\ registerLoading' = FALSE
    /\ messages' = <<>>
    /\ timers' = Surviving(timers)
    /\ calls' = Orphaned(calls)
    /\ last' = [op |-> "click"]
    /\ UNCHANGED <<localStorage, user, loading, now, reloading, crashed, loginLoading,
                   slotsList>>

\* onChange of a field (lines 369, 379, 389, 413), and the effect that follows
\* a change of the password (lines 309-311).
ChangeField ==
    /\ RegisterShown
    /\ \E field \in DOMAIN formData : \E value \in Typed(field) :
        /\ value # formData[field]
        /\ formData' = [formData EXCEPT ![field] = value]
    /\ passwordStrength' = validatePassword(formData'.password)
    /\ last' = [op |-> "click"]
    /\ UNCHANGED <<localStorage, user, loading, now, calls, reloading, crashed,
                   loginLoading, slotsList, isLogin, registerLoading, messages, timers>>

\* handleSubmit of RegisterForm up to its return or its await (lines 313-336).
\* The browser submits only when every required field is filled, and the
\* button is disabled while the form is loading.
SubmitRegister ==
    /\ RegisterShown
    /\ ~registerLoading
    /\ \A field \in DOMAIN formData : formData[field] # <<>>
    /\ LET refusal == registerValidation(formData, passwordStrength)
           added == addMessage(messages, timers, now, refusal, "error")
       IN  IF refusal # Null
           THEN /\ Len(timers) < MaxTimers
                /\ messages' = added.messages
                /\ timers' = added.timers
                /\ UNCHANGED <<registerLoading, calls>>
           ELSE /\ FreeCalls # {}
                /\ registerLoading' = TRUE
                /\ calls' = [calls EXCEPT ![FreeCall] =
                        StartRequest(localStorage, "register", "POST", "/register",
                            [name |-> formData.name, email |-> formData.email,
                             password |-> formData.password])]
                /\ UNCHANGED <<messages, timers>>
    /\ last' = [op |-> "submit", form |-> formData, strength |-> passwordStrength,
                loading |-> registerLoading, calls |-> calls, before |-> messages]
    /\ UNCHANGED <<localStorage, user, loading, now, reloading, crashed, loginLoading,
                   slotsList, isLogin, formData, passwordStrength>>

\* handleSubmit of RegisterForm from its await on (lines 337-345), given how
\* apiRequest completed: the path taken and the message handed to addMessage.
registerResume(out) ==
    IF out.ok
    THEN [path |-> "success",
          notice |-> [message |-> Str("Registration successful! Please log in."),
                      type |-> "success"]]
    ELSE [path |-> "error", notice |-> [message |-> out.message, type |-> "error"]]

\* fetch settles for a call of RegisterForm's handleSubmit. The setState calls
\* of a form that has unmounted do nothing; the timeout of line 340 is set all
\* the same.
RegisterSettles(i) ==
    /\ calls[i] # Idle
    /\ calls[i].caller = "register"
    /\ \E resp \in RegisterResponses :
        LET a == apiRequest(localStorage, resp)
            h == registerResume(a.out)
            live == calls[i].live
            added == IF live
                     THEN addMessage(messages, timers, now, h.notice.message, h.notice.type)
                     ELSE [messages |-> messages, timers |-> timers]
        IN  /\ localStorage' = a.ls
            /\ reloading' = (reloading \/ a.reload)
            /\ messages' = added.messages
            /\ timers' = IF h.path = "success"
                          THEN Append(added.timers,
                                      [kind |-> "switch", due |-> now + SwitchDelayMs])
                          ELSE added.timers
            /\ Len(timers') <= MaxTimers
            /\ formData' = IF live /\ h.path = "success" THEN BlankForm ELSE formData
            /\ last' = [op |-> "api", caller |-> calls[i].caller, resp |-> resp, out |-> a.out,
                        path |-> h.path, notice |-> h.notice]
    /\ passwordStrength' = validatePassword(formData'.password)
    /\ registerLoading' = (registerLoading /\ ~calls[i].live)
    /\ calls' = [calls EXCEPT ![i] = Idle]
    /\ UNCHANGED <<user, loading, now, crashed, loginLoading, slotsList, isLogin>>

\* The close button of a message of MessageContainer (line 180):
\* onRemove(id), which is removeMessage.
RemoveMessage ==
    /\ RegisterShown
    /\ \E k \in DOMAIN messages :
        /\ messages' = removeMessage(messages, messages[k].id)
        /\ last' = [op |-> "dismiss", index |-> k, id |-> messages[k].id,
                    before |-> messages]
    /\ UNCHANGED <<localStorage, user, loading, now, calls, reloading, crashed,
                   loginLoading, slotsList, isLogin, formData, passwordStrength,
                   registerLoading, timers>>

\* The timeouts that are due; they run in the order they were set.
DueTimers == {k \in DOMAIN timers : timers[k].due <= now}
FirstDue == CHOOSE k \in DueTimers : \A j \in DueTimers : k <= j

\* timers without its k-th element.
Without(tms, k) == SubSeq(tms, 1, k - 1) \o SubSeq(tms, k + 1, Len(tms))

\* A timeout runs: the removal addMessage scheduled (lines 151-153), or
\* onSwitchToLogin() (line 340), which unmounts a RegisterForm on screen.
TimerFires ==
    /\ DueTimers # {}
    /\ LET tm == timers[FirstDue]
           unmounts == tm.kind = "switch" /\ ~isLogin
           rest == Without(timers, FirstDue)
       IN  /\ timers' = IF unmounts THEN Surviving(rest) ELSE rest
           /\ messages' = IF tm.kind = "remove" THEN WithoutId(messages, tm.id)
                           ELSE IF unmounts THEN <<>>
                           ELSE messages
           /\ isLogin' = (isLogin \/ tm.kind = "switch")
           /\ formData' = IF unmounts THEN BlankForm ELSE formData
           /\ passwordStrength' = IF unmounts THEN 0 ELSE passwordStrength
           /\ registerLoading' = (registerLoading /\ ~unmounts)
           /\ calls' = IF unmounts THEN Orphaned(calls) ELSE calls
           /\ last' = IF tm.kind = "remove"
                       THEN [op |-> "timeout", id |-> tm.id, before |-> messages]
                       ELSE [op |-> "switch"]
    /\ UNCHANGED <<localStorage, user, loading, now, reloading, crashed, loginLoading,
                   slotsList>>

\* Time passes on the registration page, no further than the next timeout
\* that is due: a timeout runs when it is due.
TimePasses ==
    /\ \E later \in NoticeInstants \cup {timers[k].due : k \in DOMAIN timers} :
        /\ later > now
        /\ later <= NoticeHorizon
        /\ \A k \in DOMAIN timers : timers[k].due >= later
        /\ now' = later
    /\ UNCHANGED <<localStorage, user, loading, calls, reloading, crashed,
                   loginLoading, slotsList, authPage, last>>

\* ------------------------------------------------------------ specification

Next ==
    \/ Initialize
    \/ Logout
    \/ Reload
    \/ Tick
    \/ SubmitLogin
    \/ \E i \in 1..MaxCalls : LoginSettles(i)
    \/ RefreshSlots
    \/ \E i \in 1..MaxCalls : FetchSlotsSettles(i)

Spec == Init /\ [][Next]_vars

\* A visitor who registers: AuthPage, RegisterForm and its message list.
RegisterNext ==
    \/ Initialize
    \/ Reload
    \/ SwitchToRegister
    \/ SwitchToLogin
    \/ ChangeField
    \/ SubmitRegister
    \/ \E i \in DOMAIN calls : RegisterSettles(i)
    \/ RemoveMessage
    \/ TimerFires
    \/ TimePasses

RegisterSpec == Init /\ [][RegisterNext]_vars

\* The Session of a patient who has signed in.
SignedIn == login(EmptyStorage, ExpiringToken(MaxExp), Pat, Str("patient"))

\* A patient has signed in and SlotsList has loaded the server's slots.
BookInit ==
    /\ localStorage = SignedIn.ls
    /\ user = SignedIn.user
    /\ loading = FALSE
    /\ now = 0
    /\ calls = [i \in 1..MaxBookCalls |-> Idle]
    /\ reloading = FALSE
    /\ crashed = FALSE
    /\ loginLoading = FALSE
    /\ slotsList = [loading |-> FALSE,
                    slots |-> Arr({Slot(i) : i \in 1..MaxBookSlots}),
                    bookingSlot |-> Null]
    /\ isLogin = TRUE
    /\ formData = BlankForm
    /\ passwordStrength = 0
    /\ registerLoading = FALSE
    /\ messages = <<>>
    /\ timers = <<>>
    /\ last = [op |-> "start"]

\* A patient who books: SlotsList and its calls.
BookNext ==
    \/ Initialize
    \/ Reload
    \/ Tick
    \/ RefreshSlots
    \/ \E i \in DOMAIN calls : FetchSlotsSettles(i)
    \/ BookSlot
    \/ \E i \in DOMAIN calls : BookSlotSettles(i)

BookSpec == BookInit /\ [][BookNext]_vars

\* ------------------------------------------------------------------- claims

\* The last operation was a call of apiRequest whose fetch got a response.
AfterResponse == last.op = "api" /\ last.resp.net = "ok"

\* ... with status 401 or 403.
AfterAuthFailure == AfterResponse /\ last.resp.status \in {401, 403}

\* ... with another non-2xx status.
AfterApplicationFailure ==
    AfterResponse /\ ~ResponseOk(last.resp.status) /\ last.resp.status \notin {401, 403}

\* The body is {error: {message: X}} with X a string.
HasErrorMessage(body) ==
    /\ body.t = "obj"
    /\ "error" \in DOMAIN body.f
    /\ body.f.error.t = "obj"
    /\ "message" \in DOMAIN body.f.error.f
    /\ body.f.error.f.message.t = "str"

\* The last operation was initialize() and found both keys persisted.
AfterInitialize ==
    last.op = "initialize" /\ Truthy(last.before.token) /\ Truthy(last.before.user)

\* The expiry claim initialize() decoded, in milliseconds.
DecodedExpiry == TokenExpiryMs(last.before.token)

\* C1: whenever a call of apiRequest has finished on a 401 or 403 response,
\* whatever its body, both persisted keys are removed.
C1_AuthFailureClearsStorage == AfterAuthFailure => localStorage = EmptyStorage

\* C2: when apiRequest got a 401 or 403, its caller continues neither its
\* success path nor its error path.
C2_AuthFailureNeverReachesCaller == AfterAuthFailure => last.path = "none"

\* C3: once initialize() has run, the Session is fully absent, or fully
\* present with a token that has not expired.
C3_SessionAbsentOrValid ==
    (~loading /\ ~crashed) =>
        \/ user = Null /\ localStorage = EmptyStorage
        \/ /\ Truthy(user)
           /\ localStorage.token # Null
           /\ localStorage.user # Null
           /\ TokenExpiryMs(localStorage.token).ok
           /\ Greater(TokenExpiryMs(localStorage.token).v, Num(now))

\* C4: after initialize() found a token whose expiry claim is in the past (and
\* a persisted user), the in-memory user is null and both keys are removed.
C4_ExpiredTokenClears ==
    (AfterInitialize /\ DecodedExpiry.ok /\ DecodedExpiry.v.t = "num"
        /\ DecodedExpiry.v.n < last.at)
    => (user = Null /\ localStorage = EmptyStorage)

C4_Witness ==
    /\ AfterInitialize /\ DecodedExpiry.ok /\ DecodedExpiry.v.t = "num"
    /\ DecodedExpiry.v.n < last.at
    /\ user = Null /\ localStorage = EmptyStorage /\ ~loading

\* C5: after initialize() found a token whose expiry claim is in the future,
\* the Session is active, the in-memory user is the persisted user data, and
\* persisted storage is as it was.
C5_ValidTokenRestores ==
    (last.op = "initialize" /\ Truthy(last.before.token)
        /\ DecodedExpiry.ok /\ Greater(DecodedExpiry.v, Num(last.at)))
    => /\ Truthy(user)
       /\ JSONstringify(user) = last.before.user
       /\ localStorage = last.before

C5_Witness ==
    /\ last.op = "initialize" /\ Truthy(last.before.token)
    /\ DecodedExpiry.ok /\ Greater(DecodedExpiry.v, Num(last.at))
    /\ Truthy(user) /\ localStorage.token = ExpiringToken(1) /\ last.at = MsPerSec - 1

\* C6: after initialize() failed to decode the persisted token (no payload
\* segment, bad base64, payload not JSON, no usable exp), the outcome is that
\* of the expired case: both keys removed, no user, loading ended.
C6_UndecodableTokenClears ==
    (AfterInitialize /\ (~DecodedExpiry.ok \/ DecodedExpiry.v = NaN))
    => (user = Null /\ localStorage = EmptyStorage /\ ~loading)

C6_Witness ==
    /\ AfterInitialize /\ ~DecodedExpiry.ok
    /\ DecodedExpiry.name = "SyntaxError"
    /\ user = Null /\ localStorage = EmptyStorage /\ ~loading

\* C7: initialize() right after logout() (a reload in between) leaves the
\* Session absent and storage empty; and logout() on an absent Session changes
\* nothing.
C7_LogoutThenInitializeAbsent ==
    /\ (last.op = "initialize" /\ last.after = "logout")
        => (user = Null /\ localStorage = EmptyStorage)
    /\ last.op = "logout" => (user = Null /\ localStorage = EmptyStorage)
    /\ (user = Null /\ localStorage = EmptyStorage)
        => logout(localStorage) = [user |-> user, ls |-> localStorage]

C7_Witness ==
    last.op = "initialize" /\ last.after = "logout" /\ user = Null /\ ~loading

\* C8: after login(token, userProfile, role), 'token' holds the token (as a
\* string), 'user' holds the profile with role set to the asserted role, the
\* in-memory user is that merged object, and the Session is active.
C8_LoginPersistsMergedUser ==
    (last.op = "api" /\ last.caller = "login" /\ last.path = "success")
    => LET token == GetProp(last.out.v, "token").v
           profile == GetProp(last.out.v, "user").v
           role == GetProp(last.out.v, "role").v
           stored == JSONparse(localStorage.user)
       IN  /\ localStorage.token = StringOf(token)
           /\ stored.ok
           /\ GetProp(stored.v, "role").v = role
           /\ GetProp(user, "role").v = role
           /\ \A k \in (IF profile.t = "obj" THEN DOMAIN profile.f ELSE {}) \ {"role"} :
                /\ GetProp(stored.v, k).v = profile.f[k]
                /\ GetProp(user, k).v = profile.f[k]
           /\ JSONstringify(user) = localStorage.user
           /\ View(crashed, loading, user) \in {"patient", "admin"}

C8_Witness ==
    /\ last.op = "api" /\ last.caller = "login" /\ last.path = "success"
    /\ GetProp(last.out.v, "user").v = PatAsAdmin
    /\ GetProp(user, "role").v = Str("patient")
    /\ GetProp(user, "name").v = Str("Pat")

\* C9 as stated: for a non-2xx response other than 401/403 with body
\* {error: {message: X}}, X any string, apiRequest throws an error whose
\* message is X.
C9_ErrorMessageIsBodyMessage ==
    (AfterApplicationFailure /\ HasErrorMessage(last.resp.body))
    => (~last.out.ok /\ last.out.message = last.resp.body.f.error.f.message)

\* C9 amended: ... with X a string that is not empty ...
C9_NonEmptyErrorMessageIsBodyMessage ==
    (AfterApplicationFailure /\ HasErrorMessage(last.resp.body)
        /\ last.resp.body.f.error.f.message # Str(""))
    => (~last.out.ok /\ last.out.message = last.resp.body.f.error.f.message)

C9_Witness ==
    /\ AfterApplicationFailure /\ HasErrorMessage(last.resp.body)
    /\ ~last.out.ok /\ last.out.message = Str("Slot taken")

\* C10: for a non-2xx response (other than 401/403, which C1 and C2 cover)
\* whose body is not JSON or has no error message field, apiRequest throws an
\* error whose message is "HTTP <status>: <statusText>".
C10_FallbackMessage ==
    (AfterApplicationFailure /\ ~HasErrorMessage(last.resp.body))
    => (~last.out.ok
        /\ last.out.message = HttpMessage(last.resp.status, last.resp.statusText))

\* C11: when fetch rejected (the transport could not reach the server),
\* apiRequest throws an error with the connectivity message; and when the
\* server did respond, apiRequest never fails with that message.
C11_ConnectivityMessage ==
    /\ (last.op = "api" /\ last.resp.net = "fail")
        => (~last.out.ok /\ last.out.message = ConnectivityMessage)
    /\ AfterResponse => (last.out.ok \/ last.out.message # ConnectivityMessage)

\* C14: a call of apiRequest that starts in a step carries Content-Type
\* application/json, and carries Authorization: Bearer <token> exactly when
\* localStorage holds a token as the call starts (a handler that stores a token
\* and then calls has stored it by then), with the token it holds then.
C14_HeadersFromStorageAtCallStart ==
    [][\A i \in 1..MaxCalls :
        (calls'[i] # Idle /\ calls'[i].live /\ calls'[i] # calls[i])
        => /\ calls'[i].headers.contentType = "application/json"
           /\ calls'[i].headers.authorization =
                IF localStorage'.token \in {Null, Str("")}
                THEN Undefined
                ELSE [t |-> "str", c |-> "bearer", token |-> localStorage'.token]]_vars

C14_Witness ==
    \E i \in 1..MaxCalls :
        /\ calls[i] # Idle
        /\ calls[i].live
        /\ calls[i].caller = "slots"
        /\ localStorage.token = ExpiringToken(1)
        /\ calls[i].headers.authorization.t = "str"
        /\ calls[i].headers.authorization.token = ExpiringToken(1)

\* C12: a message addMessage added at time T (its id) is in the list at every
\* moment before T + 5 s unless it was dismissed, and not after: no message
\* outlives its 5 s, dismissing a message removes that message only, and a
\* timeout removes only messages whose 5 s are over.
C12_MessageLifetime ==
    /\ \A k \in DOMAIN messages : now <= messages[k].id + MessageLifetimeMs
    /\ last.op = "dismiss" => messages = Without(last.before, last.index)
    /\ last.op = "timeout"
        => messages = SelectSeq(last.before, LAMBDA msg : now < msg.id + MessageLifetimeMs)

\* C13: after RegisterForm's handleSubmit ran on a form whose confirm-password
\* differs from the password, or whose password scores below 5, no call was
\* issued, exactly one message was added (for the mismatch, 'Passwords do not
\* match'), and the form data and the loading flag are as they were.
C13_ValidationShortCircuits ==
    (last.op = "submit"
        /\ (last.form.password # last.form.confirmPassword
            \/ validatePassword(last.form.password) < 5))
    => /\ calls = last.calls
       /\ formData = last.form
       /\ registerLoading = last.loading
       /\ Len(messages) = Len(last.before) + 1
       /\ SubSeq(messages, 1, Len(last.before)) = last.before
       /\ messages[Len(messages)].type = "error"
       /\ last.form.password # last.form.confirmPassword
            => messages[Len(messages)].message = Str("Passwords do not match")

C13_Witness ==
    /\ last.op = "submit"
    /\ last.form.password = HashPassword
    /\ last.form.confirmPassword = StrongPassword
    /\ Len(messages) = 2
    /\ messages[2].message = Str("Passwords do not match")
    /\ \A i \in DOMAIN calls : calls[i] = Idle

\* C15: removeMessage(id) leaves the list as it is when no message in it has
\* that id, and so does the timeout of a message that is no longer in the list.
C15_RemovalIdempotent ==
    /\ \A id \in ({0} \cup NoticeInstants) \ {messages[k].id : k \in DOMAIN messages} :
            removeMessage(messages, id) = messages
    /\ (last.op = "timeout" /\ \A k \in DOMAIN last.before : last.before[k].id # last.id)
        => messages = last.before

C15_Witness ==
    /\ last.op = "timeout"
    /\ \A k \in DOMAIN last.before : last.before[k].id # last.id
    /\ messages # <<>>
    /\ messages = last.before

\* C16: no two messages of the list have the same id.
C16_UniqueIdentifiers ==
    \A j, k \in DOMAIN messages : j # k => messages[j].id # messages[k].id

\* C17: for every slot, at most one POST /book request of the list on screen
\* is in flight at any time.
C17_OneBookRequestPerSlot ==
    \A s \in 1..MaxBookSlots :
        Cardinality({i \in DOMAIN calls :
            calls[i] # Idle /\ calls[i].live /\ calls[i].caller = "book"
            /\ calls[i].arg = s}) <= 1

====
